---- MODULE Spec2Model ----
(***************************************************************************)
(* Model of the login-error log analysis: loginerror.py (classifier,      *)
(* filename parser, processed-files ledger, folder scan, main),           *)
(* analyzer.py (the alternative classifier and parser) and pipeline.py    *)
(* (download, scan loop, ledger write, e-mail).                           *)
(*                                                                         *)
(* Strings are sequences of symbols.  A symbol is a word that contains no *)
(* separator; the separators ("-", " ", "\n", "\r", "%2D", ".txt") are    *)
(* symbols of their own, so that split, join, replace, unquote and        *)
(* splitlines are computed on the sequence as Python computes them on the *)
(* characters.                                                             *)
(***************************************************************************)
EXTENDS Integers, Sequences, FiniteSets, TLC

\* ------------------------------------------------------------------ bounds
MaxFiles == 2        \* files that may be present in the logs folder
MaxChunks == 3       \* phrases concatenated into an enumerated log text
MaxNameChunks == 3   \* pieces concatenated into an enumerated file stem
MaxSetSize == 2      \* names in an enumerated ledger set

\* ------------------------------------------------------- string primitives
LF == "\n"
CR == "\r"
DASH == "-"
SPACE == " "
DOTTXT == ".txt"
PCT2D == "%2D"
D1 == "20251111"
D2 == "20251112"
HHMM == "1001"

RECURSIVE Flatten(_)
\* concatenation of a sequence of strings
Flatten(ss) ==
    IF ss = <<>> THEN <<>> ELSE Head(ss) \o Flatten(Tail(ss))

\* Python: pat in s
Contains(s, pat) ==
    \E i \in 0..(Len(s) - Len(pat)) : SubSeq(s, i + 1, i + Len(pat)) = pat

\* Python: s.startswith(pat)
StartsWith(s, pat) ==
    Len(s) >= Len(pat) /\ SubSeq(s, 1, Len(pat)) = pat

\* Python: s.endswith(pat)
EndsWith(s, pat) ==
    Len(s) >= Len(pat) /\ SubSeq(s, Len(s) - Len(pat) + 1, Len(s)) = pat

RECURSIVE Remove(_, _)
\* Python: s.replace(pat, ""), leftmost non-overlapping occurrences
Remove(s, pat) ==
    IF s = <<>> THEN <<>>
    ELSE IF StartsWith(s, pat) THEN Remove(SubSeq(s, Len(pat) + 1, Len(s)), pat)
    ELSE <<Head(s)>> \o Remove(Tail(s), pat)

RECURSIVE SplitAcc(_, _, _)
SplitAcc(s, seps, cur) ==
    IF s = <<>> THEN <<cur>>
    ELSE IF Head(s) \in seps THEN <<cur>> \o SplitAcc(Tail(s), seps, <<>>)
    ELSE SplitAcc(Tail(s), seps, Append(cur, Head(s)))

\* Python: s.split(sep) for a one-character separator (empty parts are kept)
Split(s, sep) == SplitAcc(s, {sep}, <<>>)

RECURSIVE Join(_, _)
\* Python: sep.join(parts)
Join(parts, sep) ==
    IF parts = <<>> THEN <<>>
    ELSE IF Len(parts) = 1 THEN parts[1]
    ELSE parts[1] \o <<sep>> \o Join(Tail(parts), sep)

RECURSIVE Translate(_)
\* text-mode read with universal newlines: "\r\n" and "\r" become "\n"
Translate(s) ==
    IF s = <<>> THEN <<>>
    ELSE IF Head(s) = CR
         THEN IF Len(s) >= 2 /\ s[2] = LF
              THEN <<LF>> \o Translate(Tail(Tail(s)))
              ELSE <<LF>> \o Translate(Tail(s))
    ELSE <<Head(s)>> \o Translate(Tail(s))

\* Python: s.splitlines(): lines end at "\n", "\r" or "\r\n"; a line break
\* at the very end does not open one more (empty) line
SplitLines(s) ==
    LET t == Translate(s)
        parts == SplitAcc(t, {LF}, <<>>)
    IN  IF t = <<>> THEN <<>>
        ELSE IF parts[Len(parts)] = <<>> THEN SubSeq(parts, 1, Len(parts) - 1)
        ELSE parts

\* code-point order of the symbols; no symbol is a prefix of another, so the
\* lexicographic order of symbol sequences is the order of the strings
Ord(c) ==
    CASE c = LF -> 1
      [] c = CR -> 2
      [] c = SPACE -> 3
      [] c = PCT2D -> 4
      [] c = DASH -> 5
      [] c = DOTTXT -> 6
      [] c = HHMM -> 7
      [] c = D1 -> 8
      [] c = D2 -> 9
      [] c = "Nefzger" -> 10
      [] c = "Ulm" -> 11
      [] c = "bot" -> 12
      [] c = "ispa" -> 13
      [] c = "log" -> 14
      [] c = "nefzger" -> 15
      [] c = "order" -> 16
      [] c = "ulm" -> 17
      [] OTHER -> 18

RECURSIVE StrLess(_, _)
\* Python: a < b on str
StrLess(a, b) ==
    IF b = <<>> THEN FALSE
    ELSE IF a = <<>> THEN TRUE
    ELSE IF Head(a) = Head(b) THEN StrLess(Tail(a), Tail(b))
    ELSE Ord(Head(a)) < Ord(Head(b))

RECURSIVE Sorted(_)
\* Python: sorted(S) for a set of strings
Sorted(S) ==
    IF S = {} THEN <<>>
    ELSE LET m == CHOOSE x \in S : \A y \in S \ {x} : StrLess(x, y)
         IN  <<m>> \o Sorted(S \ {m})

\* set(seq)
Range(f) == {f[i] : i \in DOMAIN f}

\* ---------------------------------------------------------------- ledger
\* the ledger file processed_files.txt: absent, or present with a content
NoFile == [exists |-> FALSE, text |-> <<>>]

\* loginerror.load_processed_list
load_processed_list(p) ==
    IF ~p.exists THEN {} ELSE Range(SplitLines(p.text))

\* loginerror.save_processed_list
save_processed_list(processed) ==
    [exists |-> TRUE, text |-> Join(Sorted(processed), LF)]

\* pipeline.read_processed
read_processed(p) ==
    IF ~p.exists THEN {} ELSE Range(SplitLines(p.text))

\* pipeline.write_processed
write_processed(s) ==
    [exists |-> TRUE, text |-> Join(Sorted(s), LF)]

\* ------------------------------------------------------- filename parsing
UNKNOWN == <<"Unknown">>
SUFFIX == <<DASH, "order", DASH, "bot", DASH, "ispa", DASH, "log">>
WhiteSpace == {SPACE, LF, CR}

\* Python: str.lower() on one symbol
Lower(c) ==
    CASE c = "Nefzger" -> "nefzger"
      [] c = "Ulm" -> "ulm"
      [] c = "Exception occurred:" -> "exception occurred:"
      [] c = "Login successful" -> "login successful"
      [] OTHER -> c

\* urllib.parse.unquote: the percent escape of the alphabet is decoded
unquote(s) == [i \in DOMAIN s |-> IF s[i] = PCT2D THEN DASH ELSE s[i]]

RECURSIVE LStrip(_)
LStrip(s) ==
    IF s # <<>> /\ Head(s) \in WhiteSpace THEN LStrip(Tail(s)) ELSE s

RECURSIVE RStrip(_)
RStrip(s) ==
    IF s # <<>> /\ s[Len(s)] \in WhiteSpace
    THEN RStrip(SubSeq(s, 1, Len(s) - 1)) ELSE s

\* Python: s.strip()
Strip(s) == RStrip(LStrip(s))

\* Path.stem: the name without its last suffix
Stem(name) ==
    IF Len(name) > 1 /\ name[Len(name)] = DOTTXT
    THEN SubSeq(name, 1, Len(name) - 1) ELSE name

\* Path.glob("*.txt")
IsTxt(name) == EndsWith(name, <<DOTTXT>>)

\* parse_filename.norm
norm(s) ==
    LET low == [i \in DOMAIN s |-> Lower(s[i])]
    IN  SelectSeq(low, LAMBDA c : c \notin {SPACE, DASH, "_"})

\* parse_filename.format_time: the four-digit token HHMM becomes HH:MM
format_time(s) ==
    LET t == Strip(s)
    IN  IF t = <<HHMM>> THEN <<"10:01">> ELSE t

\* next((c for c in names if norm(c) in norm(remaining)), None) or "Unknown"
FirstKnown(names, remaining) ==
    LET hits == {i \in DOMAIN names : Contains(norm(remaining), norm(names[i]))}
    IN  IF hits = {} THEN UNKNOWN
        ELSE names[CHOOSE i \in hits : \A j \in hits : i <= j]

\* parse_filename without the check of the number of parts
parse_filename_noLengthCheck(filename_stem, known) ==
    LET parts == Split(Remove(unquote(filename_stem), SUFFIX), DASH)
        remaining == Join(SubSeq(parts, 3, Len(parts)), SPACE)
    IN  [date |-> parts[1],
         time |-> IF Len(parts) > 1 THEN format_time(parts[2]) ELSE <<>>,
         company |-> FirstKnown(known.companies, remaining),
         location |-> FirstKnown(known.locations, remaining)]

\* loginerror.parse_filename
parse_filename(filename_stem, known) ==
    LET decoded == unquote(filename_stem)
        cleaned == Remove(decoded, SUFFIX)
        parts == Split(cleaned, DASH)
    IN  IF Len(parts) < 3
        THEN [date |-> UNKNOWN, time |-> UNKNOWN,
              company |-> UNKNOWN, location |-> UNKNOWN]
        ELSE LET remaining == Join(SubSeq(parts, 3, Len(parts)), SPACE)
             IN  [date |-> parts[1],
                  time |-> format_time(parts[2]),
                  company |-> FirstKnown(known.companies, remaining),
                  location |-> FirstKnown(known.locations, remaining)]

\* analyzer.parse_filename.fmt_time
fmt_time(x) == IF x = <<HHMM>> THEN <<"10:01">> ELSE x

\* analyzer.parse_filename
analyzer_parse_filename(name) ==
    LET cleaned == Remove(Stem(name), SUFFIX)
        parts == Split(cleaned, DASH)
        date_str == parts[1]
        time_raw == IF Len(parts) > 1 THEN parts[2] ELSE <<>>
        rest == IF Len(parts) > 2 THEN SubSeq(parts, 3, Len(parts)) ELSE <<>>
        raw == Join(rest, SPACE)
    IN  [date |-> date_str,
         time |-> fmt_time(time_raw),
         remaining_raw |-> raw,
         remaining_norm |->
            SelectSeq([i \in DOMAIN raw |-> Lower(raw[i])],
                      LAMBDA c : c \notin {DASH, SPACE})]

\* loginerror.load_known_entities: the reference file absent, or present
KnownAbsent == [companies |-> <<>>, locations |-> <<>>]
KnownPresent == [companies |-> << <<"Nefzger">> >>, locations |-> << <<"Ulm">> >>]

\* ------------------------------------------------------------ classifier
\* A log text is a sequence of phrases; the phrases the patterns look for
\* are symbols, as are the line break, the blank and any other text.
EXC == "Exception occurred:"
EXC_LOWER == "exception occurred:"
UEA == "Unknown error during authentication"
FBI == "find_by_image"
ELP == "Element pointer"
WFC == "wait_for_condition"
PART == "'PART_image'"
AID == "automation_id"
LOGIN_OK == "Login successful"
LOGIN_OK_LOWER == "login successful"
NO_WORK == "couldn't find any potential processes"
STARTING == "starting with process"
OTHER_TEXT == "x"

\* pattern elements: a literal phrase, \s*, .* and .* under re.S
Lit(tok) == [k |-> "lit", tok |-> tok]
WsStar == [k |-> "ws", tok |-> ""]
DotStar == [k |-> "dot", tok |-> ""]
DotAllStar == [k |-> "any", tok |-> ""]

RECURSIVE MatchAt(_, _, _, _)
\* the pattern p from element i on matches the text t from position j on
\* (re.I: phrases are compared case-insensitively)
MatchAt(p, i, t, j) ==
    IF i > Len(p) THEN TRUE
    ELSE CASE p[i].k = "lit" ->
                 /\ j <= Len(t)
                 /\ Lower(t[j]) = Lower(p[i].tok)
                 /\ MatchAt(p, i + 1, t, j + 1)
           [] p[i].k = "ws" ->
                 \/ MatchAt(p, i + 1, t, j)
                 \/ /\ j <= Len(t)
                    /\ t[j] \in WhiteSpace
                    /\ MatchAt(p, i, t, j + 1)
           [] p[i].k = "dot" ->
                 \/ MatchAt(p, i + 1, t, j)
                 \/ /\ j <= Len(t)
                    /\ t[j] # LF
                    /\ MatchAt(p, i, t, j + 1)
           [] OTHER ->
                 \/ MatchAt(p, i + 1, t, j)
                 \/ /\ j <= Len(t)
                    /\ MatchAt(p, i, t, j + 1)

\* pattern.search(text)
Search(p, t) == \E j \in 1..(Len(t) + 1) : MatchAt(p, 1, t, j)

\* loginerror.ERROR_PATTERNS
ERROR_PATTERNS ==
    << [rx |-> <<Lit(EXC), WsStar, Lit(UEA)>>, label |-> "Authentifizierung"],
       [rx |-> <<Lit(EXC), WsStar, Lit(FBI), DotStar, Lit(ELP)>>,
        label |-> "Authentifizierung"],
       [rx |-> <<Lit(WFC), DotAllStar, Lit(PART)>>, label |-> "Registrierung?"] >>

\* analyzer.ERROR_PATTERNS
analyzer_ERROR_PATTERNS ==
    << [rx |-> <<Lit(EXC), WsStar, Lit(UEA)>>, label |-> "auth?"],
       [rx |-> <<Lit(EXC), WsStar, Lit(FBI), DotStar, Lit(ELP)>>,
        label |-> "auth?"],
       [rx |-> <<Lit(EXC), WsStar, Lit(WFC), DotStar, Lit(AID)>>,
        label |-> "Registrierung?"] >>

\* indexes of the rules that match the text
Matching(rules, t) == {i \in DOMAIN rules : Search(rules[i].rx, t)}

RECURSIVE RuleLoop(_, _, _, _)
\* the loop from rule i on: the first rule that matches sets the label and
\* ends the loop; without a match the label keeps its initial value
RuleLoop(rules, i, t, label) ==
    IF i > Len(rules) THEN label
    ELSE IF Search(rules[i].rx, t) THEN rules[i].label
    ELSE RuleLoop(rules, i + 1, t, label)

\* FirstMatchLabel without the break: the last matching rule wins
FirstMatchLabel_lastWins(rules, t, default) ==
    LET hits == Matching(rules, t)
    IN  IF hits = {} THEN default
        ELSE rules[CHOOSE i \in hits : \A j \in hits : j <= i].label

\* FirstMatchLabel starting from the label "Unknown"
FirstMatchLabel_unknownDefault(rules, t, default) ==
    RuleLoop(rules, 1, t, "Unknown")

\* label = default
\* for pattern, lbl in rules: if pattern.search(text): label = lbl; break
FirstMatchLabel(rules, t, default) == RuleLoop(rules, 1, t, default)

\* a log file: its name, whether read_text succeeds, and its text
\* a call result is <<>> for None and <<finding>> for a finding

\* loginerror.analyze_log, step 1: "Login successful" in text
LoginSuccessGate(text) == Contains(text, <<LOGIN_OK>>)

\* loginerror.analyze_log
analyze_log(file, known) ==
    IF ~file.readable THEN <<>>
    ELSE IF LoginSuccessGate(file.text) THEN <<>>
    ELSE LET label == FirstMatchLabel(ERROR_PATTERNS, file.text, "")
             meta == parse_filename(Stem(file.name), known)
         IN  << [company |-> meta.company,
                 location |-> meta.location,
                 time |-> meta.time,
                 label |-> label,
                 link |-> ""] >>

\* analyze_log without the try/except around read_text
analyze_log_raises_uncaught(file) == ~file.readable

\* loginerror.analyze_log: whether an exception of read_text leaves the call
\* (try: ... except Exception: return None)
analyze_log_raises(file) == FALSE

TAIL_LINES == 12

\* analyzer.analyze_log_file, step 3: the last lines of the stripped text
Tail12(text) ==
    LET lines == SplitLines(Strip(text))
        n == Len(lines)
    IN  Join(SubSeq(lines, IF n > TAIL_LINES THEN n - TAIL_LINES + 1 ELSE 1, n), LF)

\* analyzer: x.lower().replace(" ", "").replace("-", "")
analyzer_norm(s) ==
    SelectSeq([i \in DOMAIN s |-> Lower(s[i])], LAMBDA c : c \notin {SPACE, DASH})

\* analyzer.make_job_link: the link, or the empty string for None
make_job_link(c) ==
    IF c.URL_Name = <<>> \/ c.URL_ID = <<>> THEN <<>>
    ELSE <<"https://ispa.bmwgroup.net/jobdetails/">> \o c.URL_Name
            \o <<"/">> \o c.URL_ID

\* analyzer.analyze_log_file (company_map: the companies of the reference
\* file in the order of the file)
analyze_log_file(file, company_map) ==
    IF ~file.readable THEN <<>>
    ELSE IF Cardinality({i \in DOMAIN file.text :
                            Lower(file.text[i]) = STARTING}) # 0 THEN <<>>
    ELSE IF \E i \in DOMAIN file.text : Lower(file.text[i]) = NO_WORK THEN <<>>
    ELSE LET label == FirstMatchLabel(analyzer_ERROR_PATTERNS,
                                      Tail12(file.text), "unknown")
             meta == analyzer_parse_filename(file.name)
             hits == {i \in DOMAIN company_map :
                         /\ analyzer_norm(company_map[i].name) # <<>>
                         /\ Contains(meta.remaining_norm,
                                     analyzer_norm(company_map[i].name))}
             first == CHOOSE i \in hits : \A j \in hits : i <= j
         IN  << [date |-> meta.date,
                 time |-> meta.time,
                 company |-> IF hits = {} THEN UNKNOWN
                             ELSE company_map[first].name,
                 location |-> UNKNOWN,
                 label |-> label,
                 link |-> IF hits = {} THEN <<>>
                          ELSE make_job_link(company_map[first]),
                 filename |-> file.name] >>

\* analyzer.load_companies on the reference file absent, or present
CompanyMapAbsent == <<>>
CompanyMapPresent ==
    << [name |-> <<"Nefzger">>, URL_Name |-> <<"nefzger">>, URL_ID |-> <<"17">>] >>

\* ------------------------------------------------------ the log files
WellFormedD1 == <<D1, DASH, HHMM, DASH, "nefzger", DASH, "ulm">> \o SUFFIX \o <<DOTTXT>>
WellFormedD2 == <<D2, DASH, HHMM, DASH, "nefzger">> \o SUFFIX \o <<DOTTXT>>

\* the files that may arrive in the logs folder (or be listed by Nextcloud)
Catalogue ==
    { [name |-> WellFormedD1, readable |-> TRUE,
       text |-> <<OTHER_TEXT, LF, EXC, SPACE, UEA, LF>>],
      [name |-> WellFormedD2, readable |-> TRUE,
       text |-> <<OTHER_TEXT, LF, LOGIN_OK, LF>>],
      [name |-> <<D1, CR>> \o WellFormedD2, readable |-> TRUE,
       text |-> <<WFC, LF, PART>>],
      [name |-> <<D1, DOTTXT>>, readable |-> FALSE, text |-> <<>>],
      [name |-> <<D2, DASH, HHMM, DOTTXT>>, readable |-> TRUE,
       text |-> <<NO_WORK, LF>>],
      [name |-> <<D1, DASH, "log">>, readable |-> TRUE,
       text |-> <<EXC, UEA>>] }

CatalogueNames == {f.name : f \in Catalogue}

\* the file of the folder with the given name
FileOf(n) == CHOOSE f \in Catalogue : f.name = n

START_HOUR == 5
END_HOUR == 22
Hours == {4, 5, 22, 23}

\* pipeline.in_window
in_window(h) == START_HOUR <= h /\ h <= END_HOUR

\* ------------------------------------------------------------------ state
VARIABLES
    logs,        \* the logs folder: whether it exists, and the names in it
    ledger,      \* the file processed_files.txt
    today,       \* datetime.now() as YYYYMMDD
    knownFile,   \* whether companies_locations.json exists
    pc,          \* "idle", or the position of the running main()
    prog,        \* the running main(): loginerror or pipeline
    only_today,  \* loginerror.main's only_today
    processed,   \* the set loaded from the ledger at the start of the run
    queue,       \* the sorted files the loop has not visited yet
    results,     \* the findings of the run
    newly,       \* the names the run has seen
    status,      \* how the last run ended
    hist,        \* history of the runs (not program state)
    unit         \* one call of a pure function: its input and its result

vars == <<logs, ledger, today, knownFile, pc, prog, only_today, processed,
          queue, results, newly, status, hist, unit>>

runVars == <<pc, prog, only_today, processed, queue, results, newly, status>>

UnitIdle ==
    [fn |-> "none", file |-> [name |-> <<>>, readable |-> FALSE, text |-> <<>>],
     known |-> FALSE, P |-> {}, S |-> {}, ret |-> <<>>]

HistInit ==
    [log |-> <<>>, cand |-> {}, filt |-> "none",
     prevValid |-> FALSE, prevCand |-> {}, prevFilt |-> "none",
     deferred |-> {}, grew |-> FALSE, unsent |-> {}]

\* load_known_entities(COMP_JSON)
Known == IF knownFile THEN KnownPresent ELSE KnownAbsent

Init ==
    /\ logs = [exists |-> FALSE, files |-> {}]
    /\ ledger = NoFile
    /\ today = D1
    /\ knownFile \in BOOLEAN
    /\ pc = "idle"
    /\ prog = "none"
    /\ only_today = FALSE
    /\ processed = {}
    /\ queue = <<>>
    /\ results = <<>>
    /\ newly = {}
    /\ status = "none"
    /\ hist = HistInit
    /\ unit = UnitIdle

\* -------------------------------------------------------------- environment
\* a log file is put into the logs folder
Arrive(n) ==
    /\ pc = "idle"
    /\ n \notin logs.files
    /\ Cardinality(logs.files) < MaxFiles
    /\ logs' = [exists |-> TRUE, files |-> logs.files \cup {n}]
    /\ UNCHANGED <<ledger, today, knownFile, runVars, hist, unit>>

\* midnight passes
NextDay ==
    /\ pc = "idle"
    /\ today = D1
    /\ today' = D2
    /\ UNCHANGED <<logs, ledger, knownFile, runVars, hist, unit>>

\* ------------------------------------------------------------ loginerror
\* analyze_logs_in_folder: not (only_today and today_str not in name)
PassesFilter(name, only, today_str) ==
    ~(only /\ ~Contains(name, <<today_str>>))

\* AlreadyProcessed with the ledger check left out
AlreadyProcessed_never(name, processed_files) == FALSE

\* analyze_logs_in_folder / pipeline.main: name in processed_files
AlreadyProcessed(name, processed_files) == name \in processed_files

\* analyze_logs_in_folder / pipeline.main: newly.add(name)
MarkSeen(seen, name) == seen \cup {name}

\* CommitSet writing only the names of this run
CommitSet_onlyNew(loaded, seen) == seen

\* main: processed.union(newly)
CommitSet(loaded, seen) == loaded \cup seen

\* sorted(folder.glob("*.txt")), or nothing when the folder does not exist
Listing(dir) ==
    IF ~dir.exists THEN <<>> ELSE Sorted({n \in dir.files : IsTxt(n)})

\* the history of a run that starts with the given listing and filter
HistStart(listing, filter) ==
    [hist EXCEPT !.log = <<>>, !.grew = FALSE,
                 !.cand = Range(listing), !.filt = filter]

\* the history once main() has returned: the run's log is dropped, and the
\* names left unsent by the run before it have been through a run
HistEnd(h) ==
    [h EXCEPT !.log = <<>>, !.cand = {}, !.filt = "none", !.unsent = {}]

\* loginerror.main up to the loop of analyze_logs_in_folder
StartLoginerror(only) ==
    /\ pc = "idle"
    /\ pc' = "scan"
    /\ prog' = "loginerror"
    /\ only_today' = only
    /\ processed' = load_processed_list(ledger)
    /\ queue' = Listing(logs)
    /\ results' = <<>>
    /\ newly' = {}
    /\ status' = "running"
    /\ hist' = HistStart(Listing(logs), IF only THEN today ELSE "all")
    /\ UNCHANGED <<logs, ledger, today, knownFile, unit>>

\* the loop of analyze_logs_in_folder: the file fails the only_today filter
ScanFiltered ==
    /\ pc = "scan" /\ prog = "loginerror" /\ queue # <<>>
    /\ ~PassesFilter(Head(queue), only_today, today)
    /\ queue' = Tail(queue)
    /\ hist' = [hist EXCEPT !.log = Append(@, [name |-> Head(queue),
                                               outcome |-> "filtered"])]
    /\ UNCHANGED <<logs, ledger, today, knownFile, pc, prog, only_today,
                   processed, results, newly, status, unit>>

\* the loop of analyze_logs_in_folder: the file is in processed_files
ScanProcessed ==
    /\ pc = "scan" /\ prog = "loginerror" /\ queue # <<>>
    /\ PassesFilter(Head(queue), only_today, today)
    /\ AlreadyProcessed(Head(queue), processed)
    /\ queue' = Tail(queue)
    /\ hist' = [hist EXCEPT !.log = Append(@, [name |-> Head(queue),
                                               outcome |-> "ledger"])]
    /\ UNCHANGED <<logs, ledger, today, knownFile, pc, prog, only_today,
                   processed, results, newly, status, unit>>

\* the loop of analyze_logs_in_folder: the file is analysed
ScanAnalyze ==
    /\ pc = "scan" /\ prog = "loginerror" /\ queue # <<>>
    /\ PassesFilter(Head(queue), only_today, today)
    /\ ~AlreadyProcessed(Head(queue), processed)
    /\ LET name == Head(queue)
           finding == analyze_log(FileOf(name), Known)
       IN  IF analyze_log_raises(FileOf(name))
           THEN \* the exception ends main(): nothing is saved
                /\ pc' = "idle" /\ status' = "crashed"
                /\ results' = <<>> /\ newly' = {} /\ queue' = <<>>
                /\ processed' = {}
                /\ prog' = "none" /\ only_today' = FALSE
                /\ hist' = HistEnd(hist)
           ELSE /\ results' = IF finding # <<>> THEN Append(results, finding[1])
                              ELSE results
                /\ newly' = MarkSeen(newly, name)
                /\ hist' = [hist EXCEPT !.log =
                               Append(@, [name |-> name,
                                          outcome |-> IF finding # <<>>
                                                      THEN "finding"
                                                      ELSE "nofinding"])]
                /\ queue' = Tail(queue)
                /\ UNCHANGED <<pc, prog, only_today, status, processed>>
    /\ UNCHANGED <<logs, ledger, today, knownFile, unit>>

\* the history after the run's commit point (grew: the run has written its
\* names next to names it had loaded)
HistCommit(wrote) ==
    [hist EXCEPT
        !.prevValid = TRUE, !.prevCand = hist.cand, !.prevFilt = hist.filt,
        !.grew = wrote /\ processed # {} /\ ~(newly \subseteq processed),
        !.deferred = (@ \ newly) \cup
            {hist.log[i].name : i \in
                {k \in DOMAIN hist.log : /\ hist.log[k].outcome = "filtered"
                                         /\ hist.log[k].name \notin processed}}]

\* loginerror.main after analyze_logs_in_folder: save the ledger if anything
\* was seen, print the findings
FinishLoginerror ==
    /\ pc = "scan" /\ prog = "loginerror" /\ queue = <<>>
    /\ ledger' = IF newly # {} THEN save_processed_list(CommitSet(processed, newly))
                 ELSE ledger
    /\ status' = IF results # <<>> THEN "printed" ELSE "no_new_errors"
    /\ pc' = "idle"
    /\ hist' = HistEnd(HistCommit(newly # {}))
    /\ processed' = {} /\ results' = <<>> /\ newly' = {}
    /\ prog' = "none" /\ only_today' = FALSE
    /\ UNCHANGED <<logs, today, knownFile, queue, unit>>

\* -------------------------------------------------------------- pipeline
\* download_todays_logs: the names it may fetch: today's *.txt that are
\* neither in the ledger nor in the folder already
Downloadable(loaded) ==
    {n \in CatalogueNames :
        /\ StartsWith(n, <<today>>) /\ IsTxt(n)
        /\ n \notin loaded
        /\ n \notin logs.files
        /\ FileOf(n).readable}

\* pipeline.main outside the time window: nothing happens
PipelineOutsideWindow(h) ==
    /\ pc = "idle"
    /\ ~in_window(h)
    /\ status' = "outside_window"
    /\ logs' = [logs EXCEPT !.exists = TRUE]
    /\ UNCHANGED <<ledger, today, knownFile, pc, prog, only_today, processed,
                   queue, results, newly, hist, unit>>

\* pipeline.main: download_todays_logs raises (PROPFIND refused) after the
\* ledger was read; the run ends there and its locals are lost
PipelineDownloadFails(h) ==
    /\ pc = "idle"
    /\ in_window(h)
    /\ status' = "propfind_failed"
    /\ logs' = [logs EXCEPT !.exists = TRUE]
    /\ UNCHANGED <<ledger, today, knownFile, pc, prog, only_today, processed,
                   queue, results, newly, hist, unit>>

\* pipeline.main up to its loop: read the ledger, download, list the folder
StartPipeline(h, got) ==
    /\ pc = "idle"
    /\ in_window(h)
    /\ got \subseteq Downloadable(read_processed(ledger))
    /\ Cardinality(logs.files \cup got) <= MaxFiles
    /\ LET dir == [exists |-> TRUE, files |-> logs.files \cup got]
       IN  /\ logs' = dir
           /\ queue' = Listing(dir)
           /\ hist' = HistStart(Listing(dir), "all")
    /\ pc' = "scan"
    /\ prog' = "pipeline"
    /\ only_today' = FALSE
    /\ processed' = read_processed(ledger)
    /\ results' = <<>>
    /\ newly' = {}
    /\ status' = "running"
    /\ UNCHANGED <<ledger, today, knownFile, unit>>

\* the loop of pipeline.main: the file is in processed
PipelineSkip ==
    /\ pc = "scan" /\ prog = "pipeline" /\ queue # <<>>
    /\ AlreadyProcessed(Head(queue), processed)
    /\ queue' = Tail(queue)
    /\ hist' = [hist EXCEPT !.log = Append(@, [name |-> Head(queue),
                                               outcome |-> "ledger"])]
    /\ UNCHANGED <<logs, ledger, today, knownFile, pc, prog, only_today,
                   processed, results, newly, status, unit>>

\* the loop of pipeline.main: the file is analysed
PipelineAnalyze ==
    /\ pc = "scan" /\ prog = "pipeline" /\ queue # <<>>
    /\ ~AlreadyProcessed(Head(queue), processed)
    /\ LET name == Head(queue)
           finding == analyze_log(FileOf(name), Known)
           meta == parse_filename(Stem(name), Known)
       IN  IF analyze_log_raises(FileOf(name))
           THEN \* the exception ends main(): nothing is written
                /\ pc' = "idle" /\ status' = "crashed"
                /\ results' = <<>> /\ newly' = {} /\ queue' = <<>>
                /\ processed' = {}
                /\ prog' = "none" /\ only_today' = FALSE
                /\ hist' = HistEnd(hist)
           ELSE /\ newly' = MarkSeen(newly, name)
                /\ results' =
                      IF finding # <<>>
                      THEN Append(results, [company |-> meta.company,
                                            location |-> meta.location,
                                            time |-> meta.time,
                                            label |-> finding[1].label,
                                            link |-> finding[1].link])
                      ELSE results
                /\ hist' = [hist EXCEPT !.log =
                               Append(@, [name |-> name,
                                          outcome |-> IF finding # <<>>
                                                      THEN "finding"
                                                      ELSE "nofinding"])]
                /\ queue' = Tail(queue)
                /\ UNCHANGED <<pc, prog, only_today, status, processed>>
    /\ UNCHANGED <<logs, ledger, today, knownFile, unit>>

\* pipeline.main after the loop: write the ledger; without findings, return
PipelineCommit ==
    /\ pc = "scan" /\ prog = "pipeline" /\ queue = <<>>
    /\ ledger' = write_processed(CommitSet(processed, newly))
    /\ IF results = <<>>
       THEN /\ pc' = "idle" /\ status' = "no_errors"
            /\ hist' = HistEnd(HistCommit(TRUE))
            /\ processed' = {} /\ newly' = {}
            /\ prog' = "none"
       ELSE /\ pc' = "notify" /\ status' = "running"
            /\ hist' = HistCommit(TRUE)
            /\ UNCHANGED <<processed, newly, prog>>
    /\ UNCHANGED <<logs, today, knownFile, only_today, queue, results, unit>>

\* pipeline.main: send_email returns
EmailSent ==
    /\ pc = "notify"
    /\ pc' = "idle"
    /\ status' = "email_sent"
    /\ hist' = HistEnd(hist)
    /\ processed' = {} /\ results' = <<>> /\ newly' = {}
    /\ prog' = "none"
    /\ UNCHANGED <<logs, ledger, today, knownFile, only_today, queue, unit>>

\* the history after send_email has raised: the names of the run are the
\* names of a run whose findings were not sent
HistUnsent(h) == [h EXCEPT !.unsent = newly]

\* pipeline.main: send_email raises (SMTP connection, TLS or login error)
EmailFails ==
    /\ pc = "notify"
    /\ pc' = "idle"
    /\ status' = "smtp_error"
    /\ hist' = HistUnsent(HistEnd(hist))
    /\ processed' = {} /\ results' = <<>> /\ newly' = {}
    /\ prog' = "none"
    /\ UNCHANGED <<logs, ledger, today, knownFile, only_today, queue, unit>>

\* ------------------------------------------------------- the specification
Next ==
    \/ \E n \in CatalogueNames : Arrive(n)
    \/ NextDay
    \/ \E only \in BOOLEAN : StartLoginerror(only)
    \/ ScanFiltered
    \/ ScanProcessed
    \/ ScanAnalyze
    \/ FinishLoginerror
    \/ \E h \in Hours : PipelineOutsideWindow(h)
    \/ \E h \in Hours : PipelineDownloadFails(h)
    \/ \E h \in Hours :
          \E got \in SUBSET Downloadable(read_processed(ledger)) :
             StartPipeline(h, got)
    \/ PipelineSkip
    \/ PipelineAnalyze
    \/ PipelineCommit
    \/ EmailSent
    \/ EmailFails

Spec == Init /\ [][Next]_vars

\* ---------------------------------------------------- claims on the runs
\* the loop of the run is over and its ledger is not written yet
ScanDone == pc = "scan" /\ queue = <<>>

\* the log entries of the run with the given outcome
Logged(outcome) == {i \in DOMAIN hist.log : hist.log[i].outcome = outcome}

\* C1: a run that follows a completed run (whose newly set was committed)
\* on the same candidate set with the same filter yields no finding and
\* an empty newly set
C1_SecondRunEmpty ==
    (ScanDone /\ hist.prevValid
       /\ hist.prevCand = hist.cand /\ hist.prevFilt = hist.filt)
    => (results = <<>> /\ newly = {})

\* C2: a file whose name is in the ledger loaded at the start of the run is
\* skipped before analyze_log is called: it is logged as skipped, gets no
\* finding and does not enter newly
C2_NoReprocessing ==
    /\ \A i \in DOMAIN hist.log :
          hist.log[i].name \in processed
             => hist.log[i].outcome \in {"ledger", "filtered"}
    /\ newly \cap processed = {}

\* C2 witness: a later run has skipped a file because of the ledger
C2_Witness ==
    /\ hist.prevValid
    /\ Logged("ledger") # {}
    /\ \E i \in Logged("ledger") : hist.log[i].name \in processed

\* C3: every step leaves each name of the persisted ledger in the ledger
C3_LedgerGrows ==
    [][load_processed_list(ledger) \subseteq load_processed_list(ledger')]_vars

\* C3 witness: a run that had loaded a non-empty ledger has written a
\* larger one
C3_Witness ==
    /\ pc = "idle" /\ hist.grew
    /\ Cardinality(load_processed_list(ledger)) >= 2

\* the file passes the inclusion filter the run was started with
PassedRunFilter(n) == PassesFilter(n, hist.filt # "all", hist.filt)

\* analyze_log returns None for the file: read failure or "Login successful"
NoFindingCase(n) == ~FileOf(n).readable \/ LoginSuccessGate(FileOf(n).text)

C10_FilteredStayEligible ==
    /\ \A i \in Logged("filtered") : hist.log[i].name \notin newly
    /\ Len(results) = Cardinality(Logged("finding"))
    /\ \A i \in DOMAIN hist.log :
          hist.log[i].name \in hist.deferred => hist.log[i].outcome # "ledger"

\* pipeline.main has returned after its loop
PipelineReturned ==
    pc = "idle" /\ status \in {"no_errors", "email_sent", "smtp_error"}

\* C11: when pipeline.main attempts send_email the ledger already holds
\* processed.union(newly); the ledger is written with and without findings;
\* the names of a run whose send_email failed are in the ledger, and the
\* run that follows it produces no finding for them (so none is sent)
C11_CommitBeforeNotify ==
    /\ pc = "notify" =>
          /\ results # <<>>
          /\ ledger = write_processed(CommitSet(processed, newly))
    /\ PipelineReturned => ledger.exists
    /\ hist.unsent \subseteq read_processed(ledger)
    /\ \A i \in DOMAIN hist.log :
          hist.log[i].name \in hist.unsent => hist.log[i].outcome # "finding"

\* ------------------------------------------- calls of the pure functions
\* twelve more lines of other text
Pad == [i \in 1..(2 * TAIL_LINES) |-> IF i % 2 = 1 THEN LF ELSE OTHER_TEXT]

\* the phrases the enumerated log texts are made of
TextChunks ==
    { <<EXC, SPACE, UEA>>, <<EXC, FBI, OTHER_TEXT, ELP>>, <<WFC, LF, PART>>,
      <<EXC, WFC, AID>>, <<EXC_LOWER, UEA>>, <<LF>>, <<OTHER_TEXT>>, <<LOGIN_OK>>,
      <<LOGIN_OK_LOWER>>, <<NO_WORK>>, <<STARTING>>, Pad }

\* the pieces the enumerated file stems are made of
NameChunks ==
    { <<D1>>, <<DASH>>, <<PCT2D>>, <<HHMM>>, <<"nefzger">>, <<"ulm">>,
      SUFFIX, <<D1, DASH, HHMM, DASH>> }

\* the concatenations of at most n chunks
Concats(chunks, n) ==
    {Flatten(cs) : cs \in UNION {[1..k -> chunks] : k \in 0..n}}

Texts == Concats(TextChunks, MaxChunks)
Stems == Concats(NameChunks, MaxNameChunks)
SampleTexts == { <<OTHER_TEXT, LF, EXC, SPACE, UEA>>, <<OTHER_TEXT>> }

\* the files given to the classifiers and parsers
UnitFiles ==
    {[name |-> WellFormedD1, readable |-> TRUE, text |-> t] : t \in Texts}
    \cup {[name |-> st \o <<DOTTXT>>, readable |-> TRUE, text |-> t] :
             st \in Stems, t \in SampleTexts}
    \cup {[name |-> WellFormedD1, readable |-> FALSE, text |-> <<>>]}

UnitInit ==
    /\ logs = [exists |-> FALSE, files |-> {}]
    /\ ledger = NoFile
    /\ today = D1
    /\ knownFile = TRUE
    /\ pc = "idle"
    /\ prog = "none"
    /\ only_today = FALSE
    /\ processed = {}
    /\ queue = <<>>
    /\ results = <<>>
    /\ newly = {}
    /\ status = "none"
    /\ hist = HistInit
    /\ \E f \in UnitFiles, k \in BOOLEAN :
          /\ (k = FALSE => f.text \in SampleTexts)
          /\ unit = [UnitIdle EXCEPT !.file = f, !.known = k]

mainVars == <<logs, ledger, today, knownFile, pc, prog, only_today, processed,
              queue, results, newly, status, hist>>

UnitKnown == IF unit.known THEN KnownPresent ELSE KnownAbsent
UnitCompanyMap == IF unit.known THEN CompanyMapPresent ELSE CompanyMapAbsent

\* loginerror.analyze_log(file, known)
CallAnalyzeLog ==
    /\ unit.fn = "none"
    /\ unit' = [unit EXCEPT !.fn = "analyze_log",
                            !.ret = analyze_log(unit.file, UnitKnown)]
    /\ UNCHANGED mainVars

\* analyzer.analyze_log_file(path, company_map)
CallAnalyzeLogFile ==
    /\ unit.fn = "none"
    /\ unit' = [unit EXCEPT !.fn = "analyze_log_file",
                            !.ret = analyze_log_file(unit.file, UnitCompanyMap)]
    /\ UNCHANGED mainVars

\* loginerror.parse_filename(file.stem, known)
CallParseFilename ==
    /\ unit.fn = "none"
    /\ unit' = [unit EXCEPT !.fn = "parse_filename",
                            !.ret = <<parse_filename(Stem(unit.file.name),
                                                     UnitKnown)>>]
    /\ UNCHANGED mainVars

\* analyzer.parse_filename(path)
CallAnalyzerParseFilename ==
    /\ unit.fn = "none"
    /\ unit' = [unit EXCEPT !.fn = "analyzer_parse_filename",
                            !.ret = <<analyzer_parse_filename(unit.file.name)>>]
    /\ UNCHANGED mainVars

UnitNext ==
    \/ CallAnalyzeLog
    \/ CallAnalyzeLogFile
    \/ CallParseFilename
    \/ CallAnalyzerParseFilename

SpecUnit == UnitInit /\ [][UnitNext]_vars

\* ----------------------------------------------- claims on the classifier
\* the text carries the "no potential processes" marker
HasNoWorkMarker(t) == \E i \in DOMAIN t : Lower(t[i]) = NO_WORK

\* the text carries the "Login successful" marker
HasLoginMarker(t) == Contains(t, <<LOGIN_OK>>)

Classified == unit.fn \in {"analyze_log", "analyze_log_file"}

\* the rules of the called classifier, and the text it searches them in
UnitRules ==
    IF unit.fn = "analyze_log" THEN ERROR_PATTERNS ELSE analyzer_ERROR_PATTERNS
UnitSubject ==
    IF unit.fn = "analyze_log" THEN unit.file.text ELSE Tail12(unit.file.text)

\* C5: a text with the "no potential processes" marker or the
\* "Login successful" marker gets no finding from either classifier
C5_GatingExcludes ==
    (Classified /\ unit.file.readable
       /\ (HasNoWorkMarker(unit.file.text) \/ HasLoginMarker(unit.file.text)))
    => unit.ret = <<>>

\* C6: a text that is not gated out gets exactly one label, and if rules
\* match, it is the label of the matching rule with the smallest index
C6_FirstRuleWins ==
    (Classified /\ unit.ret # <<>>)
    => /\ Len(unit.ret) = 1
       /\ \A i \in Matching(UnitRules, UnitSubject) :
             (\A j \in Matching(UnitRules, UnitSubject) : i <= j)
                => unit.ret[1].label = UnitRules[i].label

\* C6 witness: a classified text matches two rules with different labels
C6_Witness ==
    /\ Classified /\ unit.ret # <<>>
    /\ \E i, j \in Matching(UnitRules, UnitSubject) :
          /\ i < j
          /\ UnitRules[i].label # UnitRules[j].label
          /\ unit.ret[1].label = UnitRules[i].label

\* C7 as claimed: a text that passes the gates and matches no rule gets the
\* label Unknown
C7_NoMatchUnknown ==
    (Classified /\ unit.ret # <<>> /\ Matching(UnitRules, UnitSubject) = {})
    => unit.ret[1].label \in {"Unknown", "unknown"}

\* C7 as amended: a text that passes the gates and matches no rule gets a
\* finding whose label is empty from analyze_log, and "unknown" from
\* analyze_log_file
C7_NoMatchDefault ==
    (Classified /\ unit.ret # <<>> /\ Matching(UnitRules, UnitSubject) = {})
    => unit.ret[1].label = IF unit.fn = "analyze_log" THEN "" ELSE "unknown"

\* C7 witness: analyze_log has returned a finding for a text without a match
C7_Witness ==
    /\ unit.fn = "analyze_log" /\ unit.ret # <<>>
    /\ Matching(ERROR_PATTERNS, unit.file.text) = {}
    /\ unit.ret[1].label = ""

\* ---------------------------------------------------- claims on the parser
\* the tokens of the name: decoded, suffix removed, split on "-"
NameTokens(name) == Split(Remove(unquote(Stem(name)), SUFFIX), DASH)

AllUnknown(m) ==
    /\ m.date = UNKNOWN /\ m.time = UNKNOWN
    /\ m.company = UNKNOWN /\ m.location = UNKNOWN

\* the file of the call under a well-formed name
Renamed == [unit.file EXCEPT !.name = WellFormedD1]

\* the label of a call result ("none" when there is no finding)
LabelOf(r) == IF r = <<>> THEN "none" ELSE r[1].label

\* the classification of the file does not depend on its name
SameAsWellFormed ==
    /\ unit.fn = "analyze_log"
          => LabelOf(unit.ret) = LabelOf(analyze_log(Renamed, UnitKnown))
    /\ unit.fn = "analyze_log_file"
          => LabelOf(unit.ret) = LabelOf(analyze_log_file(Renamed, UnitCompanyMap))

SmallSets(U) == {X \in SUBSET U : Cardinality(X) <= MaxSetSize}

\* the sets a load can have returned: no file, or a file a save has written
LoadedSets ==
    {{}} \cup {load_processed_list(save_processed_list(X)) :
                  X \in SmallSets(CatalogueNames)}

LedgerInit ==
    /\ logs = [exists |-> FALSE, files |-> {}]
    /\ ledger = NoFile
    /\ today = D1
    /\ knownFile = TRUE
    /\ pc = "idle"
    /\ prog = "none"
    /\ only_today = FALSE
    /\ processed = {}
    /\ queue = <<>>
    /\ results = <<>>
    /\ newly = {}
    /\ status = "none"
    /\ hist = HistInit
    /\ \E P \in LoadedSets, S \in SmallSets(CatalogueNames) :
          unit = [UnitIdle EXCEPT !.P = P, !.S = S]

\* loginerror: save_processed_list(processed.union(newly)), then
\* load_processed_list()
CallSaveLoad ==
    /\ unit.fn = "none"
    /\ unit' = [unit EXCEPT
                   !.fn = "save_load",
                   !.ret = <<load_processed_list(
                               save_processed_list(CommitSet(unit.P, unit.S)))>>]
    /\ UNCHANGED mainVars

\* pipeline: write_processed(processed.union(newly)), then read_processed()
CallWriteRead ==
    /\ unit.fn = "none"
    /\ unit' = [unit EXCEPT
                   !.fn = "write_read",
                   !.ret = <<read_processed(
                               write_processed(CommitSet(unit.P, unit.S)))>>]
    /\ UNCHANGED mainVars

LedgerNext == CallSaveLoad \/ CallWriteRead

SpecLedger == LedgerInit /\ [][LedgerNext]_vars

\* C4: saving the union of a loaded set P and a set S of names and loading
\* the ledger again returns that union
C4_RoundTrip ==
    unit.fn \in {"save_load", "write_read"} => unit.ret[1] = unit.P \cup unit.S

====
